---- MODULE Spec2Model ----
(***************************************************************************)
(* Model of the Monte Carlo Tree Search engine of src/src/mcts.py: the     *)
(* Node statistics, FindMove in single-threaded and in parallel mode, the  *)
(* merge of the workers' trees, expansion, backpropagation and the root    *)
(* lifecycle (MoveRoot, ResetRoot, DropRoot).                              *)
(*                                                                         *)
(* Representation.  Python's None is NoState for a game state, NoNode for  *)
(* a node reference and NoLimit for a budget.  A node is named by the id   *)
(* <<t, a1, ..., ak>>: t is the tree it was created in (0 for the roots    *)
(* FindMove creates at line 83, w for the root of worker w created at line *)
(* 101) and a1..ak the action indices of the expansions that created it.   *)
(* Node.Children is [isNone, list]: isNone for Python's None, list = <<>>  *)
(* for Python's [] and otherwise a list of NumActions slots, the slot of   *)
(* action index i at position i + 1.  Floats are exact rationals <<n, d>>, *)
(* and <<0, 0>> is numpy's nan (0.0 / 0.0).                                *)
(***************************************************************************)
EXTENDS Integers, Sequences, FiniteSets, TLC

\* The size of the game's action space (len(legalActions)).
NumActions == 2

\* Bounds of the model.
MaxPlayLimit == 2   \* largest visit budget a call or the configuration sets
MaxPlays == 3       \* episodes are run while the searched root has fewer plays
MaxDepth == 2       \* nodes deeper than this below a tree's top are not expanded
MaxThreads == 2     \* largest worker count of an engine
MaxMoves == 1       \* longest state list handed to MoveRoot

\* The engine's exploration rate (the constructor's explorationRate).
ExplorationRate == 1

Actions == 0..(NumActions - 1)
NoState == -1
NoLimit == -1
NoNode == << >>

\* The positions FindMove and MoveRoot are called with: the start position 0
\* and its successor by action 0, and None (what FindMove hands back).
States == {0, 1}
Players == {0, 1}
Values == {0, 1}
\* The (moveTime, playLimit) pairs FindMove is called with
Budgets == {<<NoLimit, p>> : p \in {NoLimit} \cup 0..MaxPlayLimit} \cup {<<1, NoLimit>>}

(***************************************************************************)
(* Exact arithmetic for the floats of the statistics.                      *)
(***************************************************************************)
RECURSIVE GCD(_, _)
GCD(a, b) == IF b = 0 THEN a ELSE GCD(b, a % b)

NaN == <<0, 0>>
Zero == <<0, 1>>
Rat(n, d) == IF d = 0 THEN NaN ELSE LET g == GCD(n, d) IN <<n \div g, d \div g>>
RAdd(x, y) == Rat(x[1] * y[2] + y[1] * x[2], x[2] * y[2])
RMul(x, y) == Rat(x[1] * y[1], x[2] * y[2])
RDiv(x, y) == Rat(x[1] * y[2], x[2] * y[1])
RLess(x, y) == x[1] * y[2] < y[1] * x[2]

RECURSIVE RSumTo(_, _)
RSumTo(v, i) == IF i < 0 THEN Zero ELSE RAdd(RSumTo(v, i - 1), v[i])
RSum(v) == RSumTo(v, NumActions - 1)

(***************************************************************************)
(* The game and the evaluator (the abstract methods of lines 224-235, as a *)
(* concrete two-player game).  A position is the number of its move list:  *)
(* 0 is the start and s * NumActions + a + 1 is s followed by action a.    *)
(* Repeating the previous action is illegal, the players alternate and the *)
(* evaluator's priors are uniform.                                         *)
(***************************************************************************)
RECURSIVE GameDepth(_)
GameDepth(s) == IF s = 0 THEN 0 ELSE 1 + GameDepth((s - 1) \div NumActions)
GamePlayer(s) == GameDepth(s) % 2
GameApply(s, a) == s * NumActions + a + 1
GameLegal(s) == [a \in Actions |-> IF s = 0 \/ (s - 1) % NumActions # a THEN 1 ELSE 0]
GamePriors(s) == [a \in Actions |-> Rat(1, NumActions)]
\* What a lenient game answers when it is asked for the legal actions of None:
\* it takes None for a position in which only action 0 is legal.
NoneLegal == [a \in Actions |-> IF a = 0 THEN 1 ELSE 0]

VARIABLES
    nodes,      \* the Node objects alive, by id
    Root,       \* MCTS.Root
    TimeLimit,  \* MCTS.TimeLimit
    PlayLimit,  \* MCTS.PlayLimit
    Threads,    \* MCTS.Threads
    game,       \* how the game's methods treat a None state: "strict" raises
    pc,         \* position of the caller: "idle", or inside FindMove
    call,       \* state, endTime and playLimit of the running FindMove
    workers,    \* state of each task of _runAsynch
    last        \* what the last operation was given and what it gave back

vars == <<nodes, Root, TimeLimit, PlayLimit, Threads, game, pc, call, workers, last>>
config == <<TimeLimit, PlayLimit, Threads, game>>

(***************************************************************************)
(* Node                                                                    *)
(***************************************************************************)
EmptyList == [isNone |-> FALSE, list |-> << >>]
NoneChildren == [isNone |-> TRUE, list |-> << >>]

Node(state, legalActions, priors) ==
    [State |-> state, Value |-> 0, Plays |-> 0, LegalActions |-> legalActions,
     Children |-> EmptyList, Parent |-> NoNode,
     Priors |-> [a \in Actions |-> RMul(priors[a], Rat(legalActions[a], 1))]]

\* self.Children[i], NoNode where the list has no such slot
ChildAt(n, i) == IF i + 1 \in DOMAIN n.Children.list THEN n.Children.list[i + 1] ELSE NoNode

WinRate(n) == IF n.Plays > 0 THEN Rat(n.Value, n.Plays) ELSE Zero

ChildWinRates(ns, n) ==
    [i \in Actions |-> IF ChildAt(n, i) # NoNode THEN WinRate(ns[ChildAt(n, i)]) ELSE Zero]

ChildPlays(ns, n) ==
    [i \in Actions |-> IF ChildAt(n, i) # NoNode THEN ns[ChildAt(n, i)].Plays ELSE 0]

ChildProbability(ns, n, explorationFactor) ==
    LET rates == [i \in Actions |->
                    RAdd(ChildWinRates(ns, n)[i],
                         RMul(n.Priors[i],
                              Rat(explorationFactor * n.Plays, 1 + ChildPlays(ns, n)[i])))]
        total == RSum(rates)
    IN  [i \in Actions |->
            IF total = Zero THEN NaN
            ELSE RMul(RDiv(rates[i], total), Rat(n.LegalActions[i], 1))]

(***************************************************************************)
(* Helpers on the set of live nodes                                        *)
(***************************************************************************)
Put(ns, id, n) == [x \in DOMAIN ns \cup {id} |-> IF x = id THEN n ELSE ns[x]]

RECURSIVE Subtree(_, _)
Subtree(ns, id) ==
    {id} \cup UNION {Subtree(ns, ns[id].Children.list[k]) :
                        k \in {j \in DOMAIN ns[id].Children.list : ns[id].Children.list[j] # NoNode}}

RECURSIVE Top(_, _)
Top(ns, id) == IF ns[id].Parent = NoNode THEN id ELSE Top(ns, ns[id].Parent)

\* The nodes a reference still leads to: the tree around the engine's root and
\* the trees of the given worker roots.  Everything else is garbage.
Live(ns, root, tops) ==
    LET keep == (IF root = NoNode THEN {} ELSE Subtree(ns, Top(ns, root)))
                \cup UNION {Subtree(ns, t) : t \in tops}
    IN  [x \in keep |-> ns[x]]

(***************************************************************************)
(* MCTS: selection                                                         *)
(***************************************************************************)
\* np.argmax: the first index of the largest entry
ArgMax(v) ==
    CHOOSE i \in Actions :
        /\ \A j \in Actions : ~RLess(v[i], v[j])
        /\ \A j \in Actions : j < i => RLess(v[j], v[i])

\* _selectAction(root, False); -1 stands for the failed assertion of line 148
SelectGreedy(ns, n) ==
    IF n.Children.isNone THEN -1
    ELSE ArgMax([i \in Actions |-> RMul(ChildWinRates(ns, n)[i], Rat(n.LegalActions[i], 1))])

\* _selectAction(root, True): the indices np.random.choice can return; it
\* raises when the probabilities are nan
SelectExploring(ns, n) ==
    LET probability == ChildProbability(ns, n, ExplorationRate)
    IN  IF \E i \in Actions : probability[i] = NaN THEN {}
        ELSE {i \in Actions : RLess(Zero, probability[i])}

(***************************************************************************)
(* The game as the engine calls it.  An operation that can raise gives the *)
(* nodes it leaves behind and the error, "" when it returns.               *)
(***************************************************************************)
\* A strict game raises when it is handed None instead of a position.
Raises(state) == state = NoState /\ game = "strict"
LegalActions(state) == IF state = NoState THEN NoneLegal ELSE GameLegal(state)
GetPriors(state) == GamePriors(state)
\* self.ApplyAction(self, state, action) of line 216, for a state it accepts
ApplyAction(state, action) == IF state = NoState THEN NoState ELSE GameApply(state, action)

\* _applyAction: computes the successor s, checks that it has a Player, and
\* returns nothing (line 218), so its caller gets None
applyAction(state, action) == LET s == ApplyAction(state, action) IN NoState

(***************************************************************************)
(* MCTS: expansion and backpropagation                                     *)
(***************************************************************************)
\* AddChildren(node).  The first legal index decides whether it raises: its
\* child is built from LegalActions and GetPriors of what _applyAction gave.
AddChildren(ns, id) ==
    LET n == ns[id]
        l == NumActions
        legal == {i \in Actions : n.LegalActions[i] = 1}
        blank == [k \in 1..l |-> NoNode]
        fails == legal # {} /\ (Raises(n.State) \/ Raises(applyAction(n.State, 0)))
        kid(i) == Append(id, i)
        made(i) == LET s == applyAction(n.State, i)
                   IN  [Node(s, LegalActions(s), GetPriors(s)) EXCEPT !.Parent = id]
    IN  IF fails
        THEN [ns |-> [ns EXCEPT ![id].Children = [isNone |-> FALSE, list |-> blank]],
              error |-> "game"]
        ELSE [ns |-> [x \in DOMAIN ns \cup {kid(i) : i \in legal} |->
                        IF x = id
                        THEN [n EXCEPT !.Children =
                                [isNone |-> FALSE,
                                 list |-> [k \in 1..l |-> IF (k - 1) \in legal
                                                          THEN kid(k - 1) ELSE NoNode]]]
                        ELSE IF x \in DOMAIN ns THEN ns[x]
                        ELSE made(x[Len(x)])],
              error |-> ""]

\* A backpropagation that counts the visit at the leaf and stops there
BackPropLeafOnly(ns, leaf, stateValue, playerForValue) ==
    [ns |-> [ns EXCEPT ![leaf].Plays = @ + 1], error |-> ""]

\* A backpropagation that credits stateValue to every node, whoever is to move
RECURSIVE BackPropOneSided(_, _, _, _)
BackPropOneSided(ns, leaf, stateValue, playerForValue) ==
    LET ns1 == [ns EXCEPT ![leaf].Plays = @ + 1]
        parent == ns[leaf].Parent
    IN  IF parent = NoNode THEN [ns |-> ns1, error |-> ""]
        ELSE IF ns[parent].State = NoState THEN [ns |-> ns1, error |-> "Player"]
        ELSE BackPropOneSided([ns1 EXCEPT ![leaf].Value = @ + stateValue],
                              parent, stateValue, playerForValue)

\* BackProp(leaf, stateValue, playerForValue): None has no attribute Player,
\* so the walk raises below a parent whose State is None
RECURSIVE BackProp(_, _, _, _)
BackProp(ns, leaf, stateValue, playerForValue) ==
    LET ns1 == [ns EXCEPT ![leaf].Plays = @ + 1]
        parent == ns[leaf].Parent
    IN  IF parent = NoNode THEN [ns |-> ns1, error |-> ""]
        ELSE IF ns[parent].State = NoState THEN [ns |-> ns1, error |-> "Player"]
        ELSE BackProp([ns1 EXCEPT ![leaf].Value =
                            @ + (IF GamePlayer(ns[parent].State) = playerForValue
                                 THEN stateValue ELSE 1 - stateValue)],
                      parent, stateValue, playerForValue)

(***************************************************************************)
(* One simulation episode (RunSimulation, the extension point): select a   *)
(* path from the root to a leaf, expand the leaf, evaluate it, back up.    *)
(***************************************************************************)
Unexpanded(n) == n.Children.isNone \/ n.Children.list = << >>

\* The selection paths from node id, as lists of action indices.  A path ends
\* at an unexpanded node, or where the selection raises.
RECURSIVE SelectionPaths(_, _)
SelectionPaths(ns, id) ==
    LET n == ns[id]
        sel == SelectExploring(ns, n)
    IN  IF Unexpanded(n) \/ sel = {} THEN {<< >>}
        ELSE UNION {IF ChildAt(n, i) = NoNode THEN {<<i>>}
                    ELSE {<<i>> \o r : r \in SelectionPaths(ns, ChildAt(n, i))} : i \in sel}

\* Where the path q from node id ends, and the error of the selection there
RECURSIVE Walk(_, _, _)
Walk(ns, id, q) ==
    LET n == ns[id]
    IN  IF Unexpanded(n) THEN [leaf |-> id, error |-> ""]
        ELSE IF q = << >> THEN [leaf |-> id, error |-> "probabilities"]
        ELSE IF ChildAt(n, Head(q)) = NoNode THEN [leaf |-> id, error |-> "child"]
        ELSE Walk(ns, ChildAt(n, Head(q)), Tail(q))

\* Depth of a node below the top of the tree it was created in
Depth(id) == Len(id) - 1

Episode(ns, root, q, stateValue, playerForValue) ==
    LET w == Walk(ns, root, q)
        e == AddChildren(ns, w.leaf)
    IN  IF w.error # "" THEN [ns |-> ns, error |-> w.error]
        ELSE IF e.error # "" THEN e
        ELSE BackProp(e.ns, w.leaf, stateValue, playerForValue)

\* The episodes the model runs: those whose leaf is within MaxDepth and that
\* leave every visit count within MaxPlays
Bounded(ns, root, q) ==
    /\ Depth(Walk(ns, root, q).leaf) <= MaxDepth
    /\ \A x \in DOMAIN ns : Episode(ns, root, q, 0, 0).ns[x].Plays <= MaxPlays

(***************************************************************************)
(* _runMCTS                                                                *)
(***************************************************************************)
\* The loop condition of line 111; the clock is free to have run out or not
MayContinue(n, c) == c.playLimit = NoLimit \/ n.Plays < c.playLimit
MayStop(n, c) == c.timed \/ (c.playLimit # NoLimit /\ n.Plays >= c.playLimit)

\* Lines 113-116: iterating root.Children raises when it is None
KillChildren(ns, root) ==
    IF ns[root].Children.isNone THEN [ns |-> ns, error |-> "TypeError"]
    ELSE [ns |-> [x \in DOMAIN ns |->
                    IF \E k \in DOMAIN ns[root].Children.list : ns[root].Children.list[k] = x
                    THEN [ns[x] EXCEPT !.Children = NoneChildren] ELSE ns[x]],
          error |-> ""]

(***************************************************************************)
(* _mergeAll(target, trees): trees is a list of node references.  A None   *)
(* among the trees has no Plays; a tree whose Children is [] has no slot i.*)
(***************************************************************************)
RECURSIVE SumPlays(_, _)
SumPlays(ns, trees) ==
    IF trees = << >> THEN 0 ELSE ns[Head(trees)].Plays + SumPlays(ns, Tail(trees))

\* A merge that takes the value of the first tree only
SumValueFirst(ns, trees) == IF trees = << >> THEN 0 ELSE ns[Head(trees)].Value

RECURSIVE SumValue(_, _)
SumValue(ns, trees) ==
    IF trees = << >> THEN 0 ELSE ns[Head(trees)].Value + SumValue(ns, Tail(trees))

\* The trees before the first None among them
RECURSIVE Sound(_)
Sound(trees) ==
    IF trees = << >> \/ Head(trees) = NoNode THEN << >>
    ELSE <<Head(trees)>> \o Sound(Tail(trees))

\* An adoption that leaves the children with the tree they came from as well
AdoptShared(ns, target, t) ==
    LET adopted == ns[t].Children
    IN  [x \in DOMAIN ns |->
            IF x = target THEN [ns[x] EXCEPT !.Children = adopted]
            ELSE IF \E k \in DOMAIN adopted.list : adopted.list[k] = x
                 THEN [ns[x] EXCEPT !.Parent = target]
            ELSE ns[x]]

\* Lines 127-132: the target takes the children of the tree t, t gives them
\* up, and the children get the target as their parent
Adopt(ns, target, t) ==
    LET adopted == ns[t].Children
    IN  [x \in DOMAIN ns |->
            IF x = target THEN [ns[x] EXCEPT !.Children = adopted]
            ELSE IF x = t THEN [ns[x] EXCEPT !.Children = NoneChildren]
            ELSE IF \E k \in DOMAIN adopted.list : adopted.list[k] = x
                 THEN [ns[x] EXCEPT !.Parent = target]
            ELSE ns[x]]

RECURSIVE MergeAll(_, _, _)
RECURSIVE MergeSlots(_, _, _, _)

MergeAll(ns, target, trees) ==
    LET sound == Sound(trees)
        ns1 == [ns EXCEPT ![target].Plays = @ + SumPlays(ns, sound),
                          ![target].Value = @ + SumValue(ns, sound)]
        continuedTrees == SelectSeq(trees, LAMBDA t : ~ns1[t].Children.isNone)
        ns2 == Adopt(ns1, target, continuedTrees[1])
    IN  IF Len(sound) < Len(trees) THEN [ns |-> ns1, error |-> "AttributeError"]
        ELSE IF continuedTrees = << >> THEN [ns |-> ns1, error |-> ""]
        ELSE IF ns1[target].Children.isNone
             THEN MergeSlots(ns2, target, Tail(continuedTrees), 0)
        ELSE MergeSlots(ns1, target, continuedTrees, 0)

\* The loop of lines 135-138, from slot i on
MergeSlots(ns, target, continuedTrees, i) ==
    LET list == ns[target].Children.list
        short == \E k \in DOMAIN continuedTrees :
                    Len(ns[continuedTrees[k]].Children.list) <= i
        m == MergeAll(ns, list[i + 1],
                      [k \in DOMAIN continuedTrees |-> ChildAt(ns[continuedTrees[k]], i)])
    IN  IF i >= Len(list) THEN [ns |-> ns, error |-> ""]
        ELSE IF list[i + 1] = NoNode THEN MergeSlots(ns, target, continuedTrees, i + 1)
        ELSE IF short THEN [ns |-> ns, error |-> "IndexError"]
        ELSE IF m.error # "" THEN m
        ELSE MergeSlots(m.ns, target, continuedTrees, i + 1)

(***************************************************************************)
(* The root lifecycle                                                      *)
(***************************************************************************)
\* _moveRoot(state): the new self.Root
moveRoot(ns, root, state) ==
    IF root = NoNode THEN NoNode
    ELSE IF ns[root].Children.isNone THEN NoNode
    ELSE LET hits == {k \in DOMAIN ns[root].Children.list :
                        /\ ns[root].Children.list[k] # NoNode
                        /\ ns[ns[root].Children.list[k]].State = state}
         IN  IF hits = {} THEN root
             ELSE ns[root].Children.list[CHOOSE k \in hits : \A j \in hits : k <= j]

RECURSIVE MoveRootAll(_, _, _)
MoveRootAll(ns, root, states) ==
    IF states = << >> THEN root
    ELSE MoveRootAll(ns, moveRoot(ns, root, Head(states)), Tail(states))

\* A ResetRoot that goes up by one parent only
ResetRootOneUp(ns, root) ==
    IF root = NoNode THEN NoNode
    ELSE IF ns[root].Parent = NoNode THEN root ELSE ns[root].Parent

\* ResetRoot: the new self.Root
ResetRootOf(ns, root) == IF root = NoNode THEN NoNode ELSE Top(ns, root)

(***************************************************************************)
(* The operations                                                          *)
(***************************************************************************)
NoCall == [state |-> NoState, timed |-> FALSE, playLimit |-> NoLimit, episodes |-> 0]
NoWorkers == << >>

\* The record of an operation: what it was given (state, the selection path of
\* an episode, the root ResetRoot started from) and what came back (the error
\* it raised, the action FindMove selected and the state it returned, or the
\* keys of the dictionary __getstate__ returned)
Did(op, outcome) ==
    [op |-> op, outcome |-> outcome, error |-> "", state |-> NoState,
     node |-> NoNode, fields |-> {}, path |-> << >>, action |-> -1, move |-> NoState,
     probs |-> [a \in Actions |-> Zero]]

StateLists == UNION {[1..k -> States \cup {NoState}] : k \in 1..MaxMoves}

Init ==
    /\ nodes = [x \in {} |-> 0]
    /\ Root = NoNode
    /\ TimeLimit = NoLimit
    /\ PlayLimit \in {NoLimit, MaxPlayLimit}
    /\ Threads \in 1..MaxThreads
    /\ game \in {"strict", "lenient"}
    /\ pc = "idle"
    /\ call = NoCall
    /\ workers = NoWorkers
    /\ last = Did("init", "returned")

\* A FindMove that starts without a cutoff
CutoffUnchecked(c) == TRUE

\* The assertions of lines 85 and 86
Primed(n, state) == n.State = state
Cutoff(c) == c.timed \/ c.playLimit # NoLimit

\* The third element FindMove returns: self.Root.ChildProbability(), with the
\* default explorationFactor = 0.0 of line 38
ReturnedProbability(ns, n) == ChildProbability(ns, n, 0)

\* FindMove raises: the engine keeps the root and the nodes it has
Abort(ns, root, state, error) ==
    /\ nodes' = Live(ns, root, {})
    /\ Root' = root
    /\ pc' = "idle"
    /\ call' = NoCall
    /\ workers' = NoWorkers
    /\ last' = [Did("FindMove", "raised") EXCEPT !.state = state, !.error = error]
    /\ UNCHANGED config

\* FindMove, lines 74-91: the budget, the root, the two assertions, and the
\* start of the search (_runAsynch builds one root per worker)
FindMove(state, moveTime, playLimit) ==
    /\ pc = "idle"
    /\ LET mt == IF moveTime = NoLimit THEN TimeLimit ELSE moveTime
           c == [state |-> state, timed |-> mt # NoLimit,
                 playLimit |-> IF playLimit = NoLimit THEN PlayLimit ELSE playLimit,
                 episodes |-> 0]
           fresh == Node(state, LegalActions(state), GetPriors(state))
           root1 == IF Root = NoNode THEN <<0>> ELSE Root
           ns1 == IF Root = NoNode THEN Put(nodes, <<0>>, fresh) ELSE nodes
           tops == {<<w>> : w \in 1..Threads}
       IN  IF Root = NoNode /\ Raises(state) THEN Abort(nodes, Root, state, "game")
           ELSE IF ~Primed(ns1[root1], state) THEN Abort(ns1, root1, state, "primed")
           ELSE IF ~Cutoff(c) THEN Abort(ns1, root1, state, "cutoff")
           ELSE /\ Root' = root1
                /\ call' = c
                /\ last' = [Did("FindMove", "running") EXCEPT !.state = state]
                /\ IF Threads = 1
                   THEN /\ nodes' = ns1
                        /\ pc' = "single"
                        /\ workers' = NoWorkers
                   ELSE /\ nodes' = [x \in DOMAIN ns1 \cup tops |->
                                        IF x \in tops THEN fresh ELSE ns1[x]]
                        /\ pc' = "parallel"
                        /\ workers' = [w \in 1..Threads |-> "running"]
                /\ UNCHANGED config

\* One pass of the loop of _runMCTS on the engine's root (Threads = 1); an
\* error of the episode ends FindMove
RunSimulation(stateValue, playerForValue) ==
    /\ pc = "single"
    /\ MayContinue(nodes[Root], call)
    /\ \E q \in SelectionPaths(nodes, Root) :
         /\ Bounded(nodes, Root, q)
         /\ LET e == Episode(nodes, Root, q, stateValue, playerForValue)
            IN  /\ nodes' = e.ns
                /\ pc' = IF e.error # "" THEN "idle" ELSE "single"
                /\ call' = IF e.error # "" THEN NoCall ELSE [call EXCEPT !.episodes = @ + 1]
                /\ last' = [Did("RunSimulation", IF e.error # "" THEN "raised" ELSE "returned")
                               EXCEPT !.path = q, !.state = call.state,
                                      !.error = e.error]
    /\ UNCHANGED <<Root, workers, config>>

\* The end of FindMove: the final selection and the return (lines 93-95)
Return(ns) ==
    LET action == SelectGreedy(ns, ns[Root])
    IN  IF action = -1 THEN Abort(ns, Root, call.state, "children")
        ELSE IF Raises(call.state) THEN Abort(ns, Root, call.state, "game")
        ELSE /\ nodes' = Live(ns, Root, {})
             /\ last' = [Did("FindMove", "returned") EXCEPT
                            !.state = call.state, !.action = action,
                            !.move = applyAction(call.state, action),
                            !.probs = ReturnedProbability(ns, ns[Root])]
             /\ pc' = "idle"
             /\ call' = NoCall
             /\ workers' = NoWorkers
             /\ UNCHANGED <<Root, config>>

\* The loop of _runMCTS ends, its tail cuts the tree and FindMove returns
FinishSingle ==
    /\ pc = "single"
    /\ MayStop(nodes[Root], call)
    /\ LET k == KillChildren(nodes, Root)
       IN  IF k.error # "" THEN Abort(nodes, Root, call.state, k.error) ELSE Return(k.ns)

\* The roots of the workers that have not raised, in the order of the tasks
Roots == SelectSeq([w \in DOMAIN workers |-> <<w>>], LAMBDA t : workers[t[1]] # "raised")

\* A worker that runs its episodes on the engine's root
WorkerSimulationOnRoot(w, stateValue, playerForValue) ==
    /\ pc = "parallel"
    /\ w \in DOMAIN workers
    /\ workers[w] = "running"
    /\ nodes[Root].Plays < MaxPlays
    /\ \E q \in SelectionPaths(nodes, Root) :
         /\ Bounded(nodes, Root, q)
         /\ nodes' = Episode(nodes, Root, q, stateValue, playerForValue).ns
    /\ UNCHANGED <<Root, pc, call, workers, last, config>>

\* One pass of the loop of _runMCTS in worker w, on the worker's own root
WorkerSimulation(w, stateValue, playerForValue) ==
    /\ pc = "parallel"
    /\ w \in DOMAIN workers
    /\ workers[w] = "running"
    /\ MayContinue(nodes[<<w>>], call)
    /\ nodes[Root].Plays + SumPlays(nodes, Roots) < MaxPlays
    /\ \E q \in SelectionPaths(nodes, <<w>>) :
         /\ Bounded(nodes, <<w>>, q)
         /\ LET e == Episode(nodes, <<w>>, q, stateValue, playerForValue)
            IN  IF e.error # ""
                THEN /\ workers' = [workers EXCEPT ![w] = "raised"]
                     /\ nodes' = [x \in DOMAIN nodes \ Subtree(e.ns, <<w>>) |-> nodes[x]]
                ELSE /\ workers' = workers
                     /\ nodes' = e.ns
    /\ UNCHANGED <<Root, pc, call, last, config>>

\* Worker w leaves the loop and hands back its root, cut to one ply
WorkerReturn(w) ==
    /\ pc = "parallel"
    /\ w \in DOMAIN workers
    /\ workers[w] = "running"
    /\ MayStop(nodes[<<w>>], call)
    /\ nodes' = Live(KillChildren(nodes, <<w>>).ns, Root, {Roots[k] : k \in DOMAIN Roots})
    /\ workers' = [workers EXCEPT ![w] = "returned"]
    /\ UNCHANGED <<Root, pc, call, last, config>>

\* r.get() for each task in turn (lines 104-105), then _mergeAll and the rest
\* of FindMove; the first task that raised ends the call
Collect ==
    /\ pc = "parallel"
    /\ LET open == {w \in DOMAIN workers : workers[w] # "returned"}
           first == CHOOSE w \in open : \A v \in open : w <= v
           m == MergeAll(nodes, Root, [w \in DOMAIN workers |-> <<w>>])
       IN  IF open # {}
           THEN /\ workers[first] = "raised"
                /\ Abort(nodes, Root, call.state, "worker")
           ELSE IF m.error # "" THEN Abort(m.ns, Root, call.state, m.error)
           ELSE Return(m.ns)

MoveRoot(states) ==
    /\ pc = "idle"
    /\ Root' = MoveRootAll(nodes, Root, states)
    /\ nodes' = Live(nodes, Root', {})
    /\ last' = Did("MoveRoot", "returned")
    /\ UNCHANGED <<pc, call, workers, config>>

ResetRoot ==
    /\ pc = "idle"
    /\ Root' = ResetRootOf(nodes, Root)
    /\ last' = [Did("ResetRoot", "returned") EXCEPT !.node = Root]
    /\ UNCHANGED <<nodes, pc, call, workers, config>>

DropRoot ==
    /\ pc = "idle"
    /\ Root' = NoNode
    /\ nodes' = Live(nodes, NoNode, {})
    /\ last' = Did("DropRoot", "returned")
    /\ UNCHANGED <<pc, call, workers, config>>

\* The attributes of the engine object (self.__dict__): __init__ sets Pool
\* only when Threads > 1 (lines 65-66)
EngineFields ==
    {"TimeLimit", "PlayLimit", "ExplorationRate", "Root", "Threads"}
        \cup (IF Threads > 1 THEN {"Pool"} ELSE {})

\* __getstate__ (lines 237-240): del of a missing key raises KeyError
GetState ==
    /\ pc = "idle"
    /\ last' = IF "Pool" \in EngineFields
               THEN [Did("GetState", "returned") EXCEPT !.fields = EngineFields \ {"Pool"}]
               ELSE [Did("GetState", "raised") EXCEPT !.error = "KeyError"]
    /\ UNCHANGED <<nodes, Root, pc, call, workers, config>>

Next ==
    \/ \E state \in States \cup {NoState}, b \in Budgets : FindMove(state, b[1], b[2])
    \/ \E stateValue \in Values, playerForValue \in Players :
            RunSimulation(stateValue, playerForValue)
    \/ FinishSingle
    \/ \E w \in 1..MaxThreads, stateValue \in Values, playerForValue \in Players :
            WorkerSimulation(w, stateValue, playerForValue)
    \/ \E w \in 1..MaxThreads : WorkerReturn(w)
    \/ Collect
    \/ \E states \in StateLists : MoveRoot(states)
    \/ ResetRoot
    \/ DropRoot
    \/ GetState

Spec == Init /\ [][Next]_vars

(***************************************************************************)
(* _mergeAll on its own: the target <<0>> and MaxThreads trees <<1>>, ...  *)
(* are drawn from the shapes below and merged in one step.                 *)
(***************************************************************************)
Trees == [w \in 1..MaxThreads |-> <<w>>]

\* A tree: the statistics of its top, whether the top's Children is None, []
\* or a list of children, and for a list the statistics and Children of each
\* child (<<plays, value>>)
Shapes ==
    {d \in {[top |-> s, kids |-> k, kid |-> c, kidKids |-> kk] :
                s \in {<<0, 0>>, <<3, 1>>, <<5, 2>>}, k \in {"none", "empty", "expanded"},
                c \in {<<0, 0>>, <<1, 1>>}, kk \in {"none", "empty"}} :
        d.kids # "expanded" => (d.kid = <<0, 0>> /\ d.kidKids = "none")}

Build(top, d) ==
    LET kids == IF d.kids = "expanded" THEN {Append(top, i) : i \in Actions} ELSE {}
        children == [isNone |-> d.kids = "none",
                     list |-> IF d.kids = "expanded"
                              THEN [k \in 1..NumActions |-> Append(top, k - 1)] ELSE << >>]
    IN  [x \in {top} \cup kids |->
            IF x = top
            THEN [Node(0, GameLegal(0), GamePriors(0)) EXCEPT
                    !.Plays = d.top[1], !.Value = d.top[2], !.Children = children]
            ELSE [Node(NoState, NoneLegal, GamePriors(NoState)) EXCEPT
                    !.Plays = d.kid[1], !.Value = d.kid[2], !.Parent = top,
                    !.Children = IF d.kidKids = "none" THEN NoneChildren ELSE EmptyList]]

MergeInit ==
    /\ \E f \in [0..MaxThreads -> Shapes] :
          nodes = [x \in UNION {DOMAIN Build(<<w>>, f[w]) : w \in 0..MaxThreads} |->
                      Build(<<x[1]>>, f[x[1]])[x]]
    /\ Root = <<0>>
    /\ TimeLimit = NoLimit
    /\ PlayLimit = NoLimit
    /\ Threads = MaxThreads
    /\ game = "lenient"
    /\ pc = "merge"
    /\ call = NoCall
    /\ workers = [w \in 1..MaxThreads |-> "returned"]
    /\ last = Did("init", "returned")

Merge ==
    /\ pc = "merge"
    /\ LET m == MergeAll(nodes, Root, Trees)
       IN  /\ nodes' = m.ns
           /\ last' = [Did("mergeAll", IF m.error # "" THEN "raised" ELSE "returned")
                          EXCEPT !.error = m.error]
    /\ pc' = "merged"
    /\ UNCHANGED <<Root, call, workers, config>>

MergeNext == Merge

MergeSpec == MergeInit /\ [][MergeNext]_vars

(***************************************************************************)
(* The engine together with _mergeAll on the trees above: the runs of the  *)
(* engine, and the merges of every target with every list of trees.        *)
(***************************************************************************)
TreeInit == Init \/ MergeInit

TreeNext == Next \/ Merge

TreeSpec == TreeInit /\ [][TreeNext]_vars

(***************************************************************************)
(* BackProp on its own: a chain of nodes below the parentless node <<0>>,  *)
(* each holding a position or None, and BackProp called on any of them.    *)
(***************************************************************************)
\* The chain of the nodes that hold the states st, from the node id down; each
\* node has its child in the slot of its first legal action
RECURSIVE BuildChain(_, _, _)
BuildChain(id, parent, st) ==
    LET s == Head(st)
        legal == LegalActions(s)
        a == CHOOSE i \in Actions : legal[i] = 1 /\ \A j \in Actions : j < i => legal[j] = 0
        kid == Append(id, a)
        n == [Node(s, legal, GetPriors(s)) EXCEPT
                !.Parent = parent,
                !.Children = IF Tail(st) = << >> THEN EmptyList
                             ELSE [isNone |-> FALSE,
                                   list |-> [k \in 1..NumActions |->
                                               IF k - 1 = a THEN kid ELSE NoNode]]]
    IN  IF Tail(st) = << >> THEN (id :> n)
        ELSE (id :> n) @@ BuildChain(kid, id, Tail(st))

ChainInit ==
    /\ \E len \in 1..(MaxDepth + 1) :
         \E st \in [1..len -> States \cup {NoState}] : nodes = BuildChain(<<0>>, NoNode, st)
    /\ Root = <<0>>
    /\ TimeLimit = NoLimit
    /\ PlayLimit = NoLimit
    /\ Threads = 1
    /\ game = "lenient"
    /\ pc = "backprop"
    /\ call = NoCall
    /\ workers = NoWorkers
    /\ last = Did("init", "returned")

BackPropCall(leaf, stateValue, playerForValue) ==
    /\ pc = "backprop"
    /\ leaf \in DOMAIN nodes
    /\ \A x \in DOMAIN nodes : nodes[x].Plays < MaxPlays
    /\ LET b == BackProp(nodes, leaf, stateValue, playerForValue)
       IN  /\ nodes' = b.ns
           /\ last' = [Did("BackProp", IF b.error # "" THEN "raised" ELSE "returned")
                          EXCEPT !.error = b.error]
    /\ UNCHANGED <<Root, pc, call, workers, config>>

ChainNext ==
    \E leaf \in DOMAIN nodes, stateValue \in Values, playerForValue \in Players :
        BackPropCall(leaf, stateValue, playerForValue)

BackPropSpec == ChainInit /\ [][ChainNext]_vars

(***************************************************************************)
(* Properties                                                              *)
(***************************************************************************)
Returned == last.op = "FindMove" /\ last.outcome = "returned"
LegalAt(n) == {i \in Actions : n.LegalActions[i] = 1}
\* The children a node holds in its slots
ChildrenOf(n) == {n.Children.list[k] : k \in DOMAIN n.Children.list} \ {NoNode}

\* C1: whenever FindMove(state) completes for a position with a legal action,
\* the first element it returns is the successor of state by the chosen action.
C1_ReturnsSuccessor ==
    (Returned /\ last.state # NoState /\ LegalAt(nodes[Root]) # {})
        => last.move = GameApply(last.state, last.action)

\* C2: the final selection on a root with a legal action returns a legal index
\* whose child has the largest win rate among the legal children, the lowest
\* such index on ties.
C2_GreedyIsBestLegal ==
    (Returned /\ LegalAt(nodes[Root]) # {}) =>
        LET n == nodes[Root]
            rate == ChildWinRates(nodes, n)
        IN  /\ last.action \in LegalAt(n)
            /\ \A j \in LegalAt(n) : ~RLess(rate[last.action], rate[j])
            /\ \A j \in LegalAt(n) : j < last.action => RLess(rate[j], rate[last.action])

C4_MoveRootDrops ==
    [][\A s \in States \cup {NoState} :
          (/\ Root # NoNode
           /\ ~nodes[Root].Children.isNone
           /\ \A c \in ChildrenOf(nodes[Root]) : nodes[c].State # s
           /\ MoveRoot(<<s>>))
          => Root' = NoNode]_vars

\* The sum of the plays, and of the values, of a set of nodes
RECURSIVE PlaysIn(_, _)
PlaysIn(ns, S) ==
    IF S = {} THEN 0
    ELSE LET x == CHOOSE y \in S : TRUE IN ns[x].Plays + PlaysIn(ns, S \ {x})

RECURSIVE ValueIn(_, _)
ValueIn(ns, S) ==
    IF S = {} THEN 0
    ELSE LET x == CHOOSE y \in S : TRUE IN ns[x].Value + ValueIn(ns, S \ {x})

TreeTops == {Trees[w] : w \in DOMAIN Trees}

C6_MergeAdopts ==
    [][(/\ Collect
        /\ \A w \in DOMAIN workers : workers[w] = "returned" /\ ~Unexpanded(nodes[<<w>>])
        /\ nodes[Root].Children.list = << >>)
       => /\ nodes'[Root].Children.list = nodes[<<1>>].Children.list
          /\ \A c \in ChildrenOf(nodes'[Root]) :
                /\ nodes'[c].Parent = Root
                /\ nodes'[c].Plays = SumPlays(nodes, [w \in DOMAIN workers |->
                                                ChildAt(nodes[<<w>>], c[Len(c)])])]_vars

\* C9: FindMove never returns an action selected from a root that has not been
\* expanded; the selection raises instead.
C9_NoSelectionFromUnexpanded == Returned => ~Unexpanded(nodes[Root])

\* The nodes on the selection path q from node id
RECURSIVE PathNodes(_, _, _)
PathNodes(ns, id, q) ==
    {id} \cup (IF q = << >> \/ ChildAt(ns[id], Head(q)) = NoNode THEN {}
               ELSE PathNodes(ns, ChildAt(ns[id], Head(q)), Tail(q)))

\* C7: with one thread, a completed episode adds exactly 1 to the plays of the
\* nodes on its selection path, the root included, and nothing to the other
\* nodes below the root; and no step ever lowers the plays of a node.
C7_EpisodeCountsPath ==
    [][/\ (pc = "single" /\ last'.op = "RunSimulation" /\ last'.outcome = "returned")
          => \A x \in Subtree(nodes, Root) :
                nodes'[x].Plays = nodes[x].Plays
                    + (IF x \in PathNodes(nodes, Root, last'.path) THEN 1 ELSE 0)
       /\ \A x \in DOMAIN nodes \cap DOMAIN nodes' : nodes'[x].Plays >= nodes[x].Plays]_vars

\* C7 happens: an episode that went below the root has completed
C7_Witness ==
    /\ last.op = "RunSimulation" /\ last.outcome = "returned"
    /\ Len(last.path) >= 1
    /\ nodes[Root].Plays >= 2

\* C8: FindMove raises, runs no episode and returns nothing when neither the
\* call nor the configuration sets a budget, or when the root that exists has
\* another state than the one passed in.
C8_FindMoveRejects ==
    [][(/\ pc = "idle"
        /\ last'.op = "FindMove"
        /\ \/ (TimeLimit = NoLimit /\ PlayLimit = NoLimit
                /\ FindMove(last'.state, NoLimit, NoLimit))
           \/ (Root # NoNode /\ nodes[Root].State # last'.state))
       => /\ pc' = "idle"
          /\ last'.outcome = "raised"
          /\ \A x \in DOMAIN nodes : x \in DOMAIN nodes' /\ nodes'[x] = nodes[x]]_vars

\* C8 happens: a search without a budget was refused on an expanded root
C8_Witness ==
    /\ last.op = "FindMove" /\ last.outcome = "raised" /\ last.error = "cutoff"
    /\ Root # NoNode /\ ~Unexpanded(nodes[Root])

\* C10: the probabilities FindMove returns are the root's
\* childSelectionProbability for the configured exploration rate.
C10_ReturnsExploringDistribution ==
    Returned => last.probs = ChildProbability(nodes, nodes[Root], ExplorationRate)

\* The exploration factors childSelectionProbability is asked for
Factors == 0..ExplorationRate

\* C11: for every node and every exploration factor f >= 0,
\* childSelectionProbability(f) is exactly 0 at every illegal index and its
\* entries at the legal indices sum to 1.
C11_ProbabilityIsDistribution ==
    \A x \in DOMAIN nodes, f \in Factors :
        LET n == nodes[x]
            p == ChildProbability(nodes, n, f)
        IN  /\ \A i \in Actions \ LegalAt(n) : p[i] = Zero
            /\ RSum([i \in Actions |-> IF i \in LegalAt(n) THEN p[i] ELSE Zero]) = Rat(1, 1)

\* C12: with one thread, no time limit and a visit budget P >= 1, a FindMove
\* that returns has run exactly P episodes, on a fresh root and on a root that
\* already carries visits.
C12_BudgetIsPerCall ==
    [][(/\ pc = "single"
        /\ ~call.timed /\ call.playLimit >= 1
        /\ last'.op = "FindMove" /\ last'.outcome = "returned")
       => call.episodes = call.playLimit]_vars

\* A node and the nodes above it on its parent chain
RECURSIVE Ancestors(_, _)
Ancestors(ns, id) ==
    {id} \cup (IF ns[id].Parent = NoNode THEN {} ELSE Ancestors(ns, ns[id].Parent))

\* C13: a BackProp(leaf, v, p) that returns adds 1 to the plays of every node
\* on the parent chain of the leaf; adds v to the value of each of them whose
\* parent's state has player p to move and 1 - v to the others that have a
\* parent; changes no other plays or value; and the parentless node at the top
\* keeps the value 0.
C13_BackPropCredits ==
    [][\A leaf \in DOMAIN nodes, v \in Values, p \in Players :
          (BackPropCall(leaf, v, p) /\ last'.outcome = "returned")
          => /\ \A x \in DOMAIN nodes :
                   LET on == x \in Ancestors(nodes, leaf)
                       par == nodes[x].Parent
                   IN  /\ nodes'[x].Plays = nodes[x].Plays + (IF on THEN 1 ELSE 0)
                       /\ nodes'[x].Value = nodes[x].Value +
                             (IF on /\ par # NoNode
                              THEN (IF GamePlayer(nodes[par].State) = p THEN v ELSE 1 - v)
                              ELSE 0)
             /\ nodes'[Root].Value = 0]_vars

\* C13 happens: calls on a chain of three nodes have returned, and credited a
\* node two levels below the top
C13_Witness ==
    /\ last.op = "BackProp" /\ last.outcome = "returned"
    /\ nodes[Root].Plays >= 2
    /\ \E x \in DOMAIN nodes : Len(x) = 3 /\ nodes[x].Plays >= 1 /\ nodes[x].Value >= 1
    /\ \E x \in DOMAIN nodes : Len(x) = 2 /\ nodes[x].Value < nodes[x].Plays

\* C14: the expansion of a node that holds a position gives it NumActions
\* slots; the slot of an illegal action is empty, the slot of a legal action i
\* holds a new node whose state is the successor of the node's state by i,
\* whose parent is the node and whose plays and value are 0.
C14_ExpandBuildsSuccessors ==
    [][(pc = "single" /\ last'.op = "RunSimulation" /\ last'.outcome = "returned")
       => LET leaf == Walk(nodes, Root, last'.path).leaf
              n == nodes[leaf]
              expanded == nodes'[leaf]
          IN  n.State # NoState =>
                /\ Len(expanded.Children.list) = NumActions
                /\ \A i \in Actions :
                      LET c == ChildAt(expanded, i)
                      IN  IF n.LegalActions[i] = 0 THEN c = NoNode
                          ELSE /\ c # NoNode
                               /\ c \notin DOMAIN nodes
                               /\ nodes'[c].State = GameApply(n.State, i)
                               /\ nodes'[c].Parent = leaf
                               /\ nodes'[c].Plays = 0 /\ nodes'[c].Value = 0]_vars

\* C15: with one thread, a node that has been expanded keeps its children
\* array in every later step, as long as the node exists.
C15_ChildrenAssignedOnce ==
    [][Threads = 1 =>
         \A x \in DOMAIN nodes \cap DOMAIN nodes' :
            ~Unexpanded(nodes[x]) => nodes'[x].Children = nodes[x].Children]_vars

\* C16: every node below the engine's root has as its parent the node whose
\* children slot holds it, and no node is held in the slots of two nodes or in
\* two slots.
C16_StrictTree ==
    /\ Root # NoNode =>
          \A x \in Subtree(nodes, Root) : \A c \in ChildrenOf(nodes[x]) : nodes[c].Parent = x
    /\ \A x, y \in DOMAIN nodes :
          x # y => ChildrenOf(nodes[x]) \cap ChildrenOf(nodes[y]) = {}
    /\ \A x \in DOMAIN nodes : \A j, k \in DOMAIN nodes[x].Children.list :
          (j # k /\ nodes[x].Children.list[j] # NoNode)
              => nodes[x].Children.list[j] # nodes[x].Children.list[k]

\* C16 happens: a merge has handed the children of the first tree to the target
C16_Witness ==
    /\ pc = "merged" /\ last.outcome = "returned"
    /\ ChildrenOf(nodes[Root]) # {}
    /\ \A c \in ChildrenOf(nodes[Root]) : c[1] = 1 /\ nodes[c].Parent = Root
    /\ nodes[<<1>>].Children.isNone

\* C17: an episode run from the engine's root leaves the plays and the value
\* of every node outside the root's subtree as they were.
C17_BackPropStopsAtRoot ==
    [][(pc = "single" /\ last'.op = "RunSimulation")
       => \A x \in DOMAIN nodes \ Subtree(nodes, Root) :
             /\ x \in DOMAIN nodes'
             /\ nodes'[x].Plays = nodes[x].Plays
             /\ nodes'[x].Value = nodes[x].Value]_vars

\* C18: ResetRoot makes the parentless ancestor of the root the root and
\* changes no node; without a root it changes nothing.
C18_ResetRootNavigates ==
    [][ResetRoot =>
         /\ nodes' = nodes
         /\ IF Root = NoNode THEN Root' = NoNode
            ELSE /\ Root' \in Ancestors(nodes, Root)
                 /\ nodes[Root'].Parent = NoNode]_vars

\* C18 happens: ResetRoot went up from a root two levels below the top
C18_Witness ==
    /\ last.op = "ResetRoot"
    /\ Len(last.node) = 3
    /\ Root = <<0>>

\* C19: a parallel FindMove gives each worker a fresh root of its own; while
\* the workers run, the engine's tree stays as it is and a step changes the
\* tree of one worker only; and FindMove returns only when every worker has,
\* with the root that _mergeAll makes of the workers' roots in index order,
\* the plays and the values of all of them added to the root's.
C19_WorkersAreIndependent ==
    [][/\ (pc = "idle" /\ pc' = "parallel")
          => \A w \in DOMAIN workers' :
                /\ <<w>> # Root' /\ <<w>> \notin DOMAIN nodes
                /\ nodes'[<<w>>] = Node(call'.state, LegalActions(call'.state),
                                        GetPriors(call'.state))
       /\ (pc = "parallel" /\ pc' = "parallel")
          => /\ Root' = Root
             /\ \A x \in Subtree(nodes, Top(nodes, Root)) :
                   x \in DOMAIN nodes' /\ nodes'[x] = nodes[x]
             /\ \A v, w \in DOMAIN workers :
                   (v # w /\ \E x \in DOMAIN nodes : x[1] = v /\
                                 (x \notin DOMAIN nodes' \/ nodes'[x] # nodes[x]))
                   => \A y \in DOMAIN nodes :
                         y[1] = w => (y \in DOMAIN nodes' /\ nodes'[y] = nodes[y])
       /\ (pc = "parallel" /\ pc' = "idle" /\ last'.outcome = "returned")
          => LET order == [w \in 1..Threads |-> <<w>>]
             IN  /\ \A w \in DOMAIN workers : workers[w] = "returned"
                 /\ Root' = Root
                 /\ nodes'[Root] = MergeAll(nodes, Root, order).ns[Root]
                 /\ nodes'[Root].Plays = nodes[Root].Plays + SumPlays(nodes, order)
                 /\ nodes'[Root].Value = nodes[Root].Value + SumValue(nodes, order)]_vars

\* C19 happens: a parallel FindMove returned the visits of two workers
C19_Witness ==
    /\ Returned
    /\ Threads > 1
    /\ nodes[Root].Plays >= 2

\* C20: for every worker count, __getstate__ returns, and what it returns has
\* every attribute of the engine except the worker pool.
C20_SnapshotOmitsPool ==
    last.op = "GetState" =>
        /\ last.outcome = "returned"
        /\ last.fields = {"TimeLimit", "PlayLimit", "ExplorationRate", "Root", "Threads"}

====
